---- MODULE Spec2Model ----
(***************************************************************************)
(* The soap-box-derby race coordinator (infra/server/derbyRace.py) and the *)
(* DerbyNet API client it drives (infra/server/derbyapi.py).               *)
(*                                                                         *)
(* The coordinator runs two threads without any lock: the main thread      *)
(* polls the API (updateFromDerbyAPI, sendServerTelemetry) and the paho    *)
(* network thread runs on_message.  Each thread is a program counter over  *)
(* the statements that read or write the shared race record.               *)
(*                                                                         *)
(* Spec       the coordinator; an API call is one step whose result is any *)
(*            value the client can return, raise or exit with.             *)
(* SerialSpec the schedules of Spec in which handlers do not interleave.   *)
(* FairSpec   Spec with a main thread that keeps running.                  *)
(* ApiSpec    the API client shared by the two threads, statement by       *)
(*            statement; each thread issues the calls the coordinator      *)
(*            makes on it, in any order.                                   *)
(* TimeoutSpec    SerialSpec with long pauses and a main loop that keeps   *)
(*                running.                                                 *)
(* HeartbeatSpec  the callback thread's timerHeartbeat with the API        *)
(*                client's calls statement by statement.                   *)
(* ClientSpec     the shared MQTT client (infra/common/derbynet.py): its   *)
(*                offline queue, its files and its queue processor.        *)
(* FinishTimerSpec the finish timer (finishtimer/files/finishtimer.py):    *)
(*                main's loop, the toggle callback, the offline queue.     *)
(* RetrySpec      the finish timer from initMQTT on with its reconnection  *)
(*                timer (connect_with_retry); the switch is left alone.    *)
(***************************************************************************)
EXTENDS Integers, Sequences, FiniteSets, TLC

\* ---------------------------------------------------------------- bounds
MaxTime == 2            \* the clock (seconds) runs 1..MaxTime
MaxTelemetryLane == 1   \* telemetry arrives from timers on lanes 0..MaxTelemetryLane
MaxFinished == 4        \* laneFinish calls counted in lanesFinished
MaxMessages == 2        \* messages handed to the shared MQTT client
MaxIds == 3             \* uuid4 values the shared MQTT client draws
MaxToggles == 2         \* calls of the finish timer's toggle_callback
MaxFailures == 12       \* failed retries in a row of the finish timer's connect_with_retry

\* ------------------------------------------------------ program constants
lane_count == 3
LANE_FINISH_TIMEOUT == 90
HEARTBEAT_TIMEOUT == 6
HEARTBEAT_PULSE == 1
HEARTBEAT_INTERVAL == 60
MQTT_MAX_RETRIES == 10
MQTT_RETRY_DELAY == 5
MQTT_MAX_DELAY == 300

Threads == {"main", "cb"}

\* ------------------------------------------------------------ DIP switch
\* a Python str is a sequence of one-character strings
Bits == {"0", "1"}
NoDIP == << >>
PinLevels == [1..4 -> BOOLEAN]

\* derbyPCBv1.readDIP: the switches are active low
readDIP(pins) == [i \in 1..4 |-> IF pins[i] THEN "0" ELSE "1"]

AllDIPs == {readDIP(p) : p \in PinLevels}

\* derbyPCBv1.get_Lane, on the DIP string readDIP returned
get_Lane(dip) ==
    IF dip = <<"1", "0", "0", "0">> THEN <<"1">>
    ELSE IF dip = <<"1", "0", "0", "1">> THEN <<"2">>
    ELSE IF dip = <<"1", "0", "1", "0">> THEN <<"3">>
    ELSE IF dip = <<"1", "0", "1", "1">> THEN <<"4">>
    ELSE <<"0">>

DigitValue(c) ==
    CASE c = "0" -> 0 [] c = "1" -> 1 [] c = "2" -> 2 [] c = "3" -> 3
      [] c = "4" -> 4 [] c = "5" -> 5 [] c = "6" -> 6 [] c = "7" -> 7
      [] c = "8" -> 8 [] c = "9" -> 9

RECURSIVE int(_)
\* Python int() of a string of decimal digits
int(s) == IF s = << >> THEN 0
          ELSE 10 * int(SubSeq(s, 1, Len(s) - 1)) + DigitValue(s[Len(s)])

\* getDIPName with the last branch returning the lane of the branch above
getDIPNameLane4As3(dip) ==
    IF dip = <<"1", "0", "0", "0">> THEN 1
    ELSE IF dip = <<"1", "0", "0", "1">> THEN 2
    ELSE IF dip = <<"1", "0", "1", "0">> THEN 3
    ELSE IF dip = <<"1", "0", "1", "1">> THEN 3
    ELSE 0

\* derbyRace.getDIPName
getDIPName(dip) ==
    IF dip = <<"1", "0", "0", "0">> THEN 1
    ELSE IF dip = <<"1", "0", "0", "1">> THEN 2
    ELSE IF dip = <<"1", "0", "1", "0">> THEN 3
    ELSE IF dip = <<"1", "0", "1", "1">> THEN 4
    ELSE 0

\* ---------------------------------------------------------- MQTT messages
\* the DIP settings of the timers that can be on the track
LaneDIPs == {d \in AllDIPs : getDIPName(d) > 0}
ZeroDIP == readDIP([i \in 1..4 |-> TRUE])

\* The installations explored, by the timers that send toggles and those
\* that send telemetry: the timers of the track's lanes; a timer set to a
\* lane the track does not have and one with no lane set; timers on lanes up
\* to MaxTelemetryLane and one with no lane set reporting telemetry; and
\* the timer of lane 1 doing both.
Lane1DIP == {d \in LaneDIPs : getDIPName(d) = 1}

Fleets ==
    { [toggle |-> {d \in LaneDIPs : getDIPName(d) <= lane_count}, telemetry |-> {}],
      [toggle |-> {d \in LaneDIPs : getDIPName(d) > lane_count} \cup {ZeroDIP},
       telemetry |-> {}],
      [toggle |-> {},
       telemetry |-> {d \in LaneDIPs : getDIPName(d) <= MaxTelemetryLane} \cup {ZeroDIP}],
      [toggle |-> Lane1DIP, telemetry |-> Lane1DIP] }

\* finish timer toggle (finishtimer.toggle_callback): dip and toggle
ToggleMessages(f) ==
    [topic : {"state"}, dip : f.toggle, val : {"none"},
     toggle : {"true", "false"}, ready : {FALSE}]

\* start timer (starttimer send_mqtt_message): state GO/STOP, no dip, no toggle
StartMessages ==
    [topic : {"state"}, dip : {NoDIP}, val : {"GO", "STOP"},
     toggle : {"none"}, ready : {FALSE}]

\* device telemetry: dip and readyToRace
TelemetryMessages(f) ==
    [topic : {"telemetry"}, dip : f.telemetry,
     val : {"none"}, toggle : {"none"}, ready : BOOLEAN]

NoMsg == [topic |-> "none", dip |-> NoDIP, val |-> "none", toggle |-> "none",
          ready |-> FALSE, lane |-> 0]

\* --------------------------------------------------------------- state
VARIABLES
    race_state,        \* derbyRace.race_state
    start_time,        \* derbyRace.start_time, 0 = not started
    lane_times,        \* derbyRace.lane_times: lane -> elapsed seconds
    lanesFinished,     \* derbyRace.lanesFinished
    timer_heartbeats,  \* derbyRace.timer_heartbeats: lane -> [time, isReady]
    last_heartbeat,    \* derbyRace.last_heartbeat
    pc,                \* position of each thread
    racestats,         \* main thread: result of api.get_race_status()
    msg,               \* callback thread: the message being handled, with its lane
    timer,             \* per thread: startRace's local timer = time.time()
    race_time,         \* callback thread: laneFinish's race_time
    now,               \* time.time()
    race_state_pub,    \* payload this poll cycle published on derbynet/race/state, until the broker has it
    authcode,          \* DerbyNetClient.authcode: "None", "" or a session cookie
    timer_state,       \* DerbyNetClient.timer_state
    last_heartbeat_time, \* DerbyNetClient.last_heartbeat_time
    api,               \* per thread: the API call in progress and its position
    fleet,             \* the timers installed: the DIPs that send toggles and telemetry
    start_fresh,       \* history: start_time was set by startRace since race_state last became STOPPED
    posted,            \* the DerbyNet server: the last HEARTBEAT message it accepted
    connected,         \* common MQTTClient.connected
    message_queue,     \* common MQTTClient.message_queue.queue: messages [id, n] waiting
    queue_dir,         \* the files <id>.json in MessageQueue.queue_dir
    next_id,           \* the uuid4 values used so far
    handed,            \* history: what MQTTClient.publish returned for message n
    delivered,         \* the broker: the messages it accepted
    ft_pc,             \* finish timer: position of main
    is_connected,      \* finish timer: client.is_connected()
    mqtt_offline_queue, \* finish timer: mqtt_offline_queue
    offline_dir,       \* finish timer: the files mqtt_*.json in /var/lib/finishtimer/offline
    calls,             \* finish timer: calls of toggle_callback so far
    given,             \* history: the messages given to publish_with_offline_support
    got,               \* the broker: the finish timer's messages it accepted
    mqtt_reconnect_timer, \* finish timer: interval of the pending threading.Timer, 0 for None
    retry_count,       \* finish timer: connect_with_retry.retry_count, 0 while not set
    failed             \* history: failed retries in a row of connect_with_retry

vars == <<race_state, start_time, lane_times, lanesFinished, timer_heartbeats,
          last_heartbeat, pc, racestats, msg, timer, race_time, now,
          race_state_pub, authcode, timer_state, last_heartbeat_time, api,
          fleet, start_fresh, posted,
          connected, message_queue, queue_dir, next_id, handed, delivered,
          ft_pc, is_connected, mqtt_offline_queue, offline_dir, calls, given, got,
          mqtt_reconnect_timer, retry_count, failed>>

retryVars == <<mqtt_reconnect_timer, retry_count, failed>>
apiVars == <<authcode, timer_state, last_heartbeat_time, api, posted>>
finishVars == <<ft_pc, is_connected, mqtt_offline_queue, offline_dir, calls, given, got,
                retryVars>>
clientVars == <<connected, message_queue, queue_dir, next_id, handed, delivered>>
raceVars == <<race_state, start_time, lane_times, lanesFinished, timer_heartbeats,
              last_heartbeat, racestats, msg, timer, race_time, race_state_pub,
              fleet, start_fresh>>

record == <<race_state, start_time, lane_times, lanesFinished>>
mainLocal == <<pc["main"], racestats, timer["main"]>>

\* derbyapi.py lines 36-40
TIMER_STATE_CONNECTED == "CONNECTED"
TIMER_STATE_STAGING == "STAGING"
TIMER_STATE_RUNNING == "RUNNING"
TIMER_STATE_UNHEALTHY == "UNHEALTHY"
TIMER_STATE_NOT_CONNECTED == "NOT_CONNECTED"

\* no API call in progress
\* send_timer_heartbeat lines 121-142: the HEARTBEAT payload, confirmed=1
\* when the timers of lanes 1, 2 and 3 are all online and ready, and
\* timerId, lane and ready for each lane in timer_heartbeats
HeartbeatPayload(hb) ==
    [confirmed |-> IF \A l \in 1..3 : l \in DOMAIN hb /\ hb[l].isReady THEN 1 ELSE 0,
     lanes |-> [l \in DOMAIN hb |-> hb[l].isReady]]

NoPayload == [confirmed |-> 0, lanes |-> [l \in {} |-> FALSE]]

\* no API call in progress; of a call: the function, its position, why it
\* logs in, its (or login's) return value, its local current_time, the
\* payload it built and how its request ended
ApiIdle == [fn |-> "none", pc |-> "idle", ctx |-> "none", ret |-> "None", current_time |-> 0,
            payload |-> NoPayload, response |-> "none"]

EmptyMap == [l \in {} |-> 0]

\* get_race_status results: a status dict ("active" and whether
\* "timer-state-string" is "Race running"), or False after an HTTP error
StatusDicts == [ret : {"dict"}, active : BOOLEAN, running : BOOLEAN]
FalseStats == [ret |-> "False", active |-> FALSE, running |-> FALSE]
NoStats == [ret |-> "none", active |-> FALSE, running |-> FALSE]

\* the state in which the finish timer's main is at ft_at
InitAt(ft_at) ==
    /\ race_state = "STOPPED"
    /\ start_time = 0
    /\ lane_times = EmptyMap
    /\ lanesFinished = 0
    /\ timer_heartbeats = EmptyMap
    /\ last_heartbeat = 0
    /\ pc = [t \in Threads |-> IF t = "main" THEN "poll" ELSE "idle"]
    /\ racestats = NoStats
    /\ msg = NoMsg
    /\ timer = [t \in Threads |-> 0]
    /\ race_time = 0
    /\ now = 1
    /\ race_state_pub = "none"
    /\ authcode = "None"
    /\ timer_state = TIMER_STATE_NOT_CONNECTED
    /\ last_heartbeat_time = 0
    /\ api = [t \in Threads |-> ApiIdle]
    /\ posted = NoPayload
    /\ connected = FALSE
    /\ message_queue = << >>
    /\ queue_dir = {}
    /\ next_id = 0
    /\ handed = [n \in 1..MaxMessages |-> "none"]
    /\ delivered = {}
    /\ ft_pc = ft_at
    /\ is_connected = FALSE
    /\ mqtt_offline_queue = << >>
    /\ offline_dir = {}
    /\ calls = 0
    /\ given = {}
    /\ got = {}
    /\ mqtt_reconnect_timer = 0
    /\ retry_count = 0
    /\ failed = 0
    /\ fleet \in Fleets
    /\ start_fresh = FALSE

Init == InitAt("send_telemetry")

Running == pc["main"] # "exited"

Goto(t, l) == pc' = [pc EXCEPT ![t] = l]

\* time.time() advances
Tick ==
    /\ Running
    /\ now < MaxTime
    /\ now' = now + 1
    /\ UNCHANGED <<race_state, start_time, lane_times, lanesFinished,
                   timer_heartbeats, last_heartbeat, pc, racestats, msg, timer,
                   race_time, race_state_pub, start_fresh, fleet, apiVars, clientVars, finishVars>>

\* what an API call can do to its caller: return True or False, raise an
\* Exception (malformed response, recursion limit), or exit(1) inside login
ApiOutcomes == {"True", "False", "raise", "exit"}

\* ------------------------------------------------------------ main thread
\* updateFromDerbyAPI lines 180-186: racestats = self.api.get_race_status()
\* and racestats.get(...).  On False the .get raises AttributeError, which
\* the main loop answers with derby.close(); exit(1), as it does when the
\* call itself raises; exit(1) inside login ends the process as well
Poll ==
    /\ pc["main"] = "poll"
    /\ \/ \E r \in StatusDicts :
             /\ racestats' = r
             /\ Goto("main", "led_staging")
       \/ /\ racestats' = FalseStats
          /\ Goto("main", "exited")
       \/ \E r \in {"raise", "exit"} :
             /\ racestats' = racestats
             /\ Goto("main", "exited")
    /\ UNCHANGED <<race_state, start_time, lane_times, lanesFinished,
                   timer_heartbeats, last_heartbeat, msg, timer, race_time, now,
                   race_state_pub, start_fresh, fleet, apiVars, clientVars, finishVars>>

\* setLEDFromRaceStat lines 209-211
LedStaging ==
    /\ pc["main"] = "led_staging"
    /\ race_state' = IF racestats.active /\ race_state = "STOPPED"
                       THEN "STAGING" ELSE race_state
    /\ Goto("main", "led_racing")
    /\ UNCHANGED <<start_time, lane_times, lanesFinished, timer_heartbeats,
                   last_heartbeat, racestats, msg, timer, race_time, now,
                   race_state_pub, start_fresh, fleet, apiVars, clientVars, finishVars>>

\* setLEDFromRaceStat lines 212-215
LedRacing ==
    /\ pc["main"] = "led_racing"
    /\ IF racestats.running
         THEN race_state' = "RACING" /\ Goto("main", "sr_check")
         ELSE race_state' = race_state /\ Goto("main", "led_stop")
    /\ UNCHANGED <<start_time, lane_times, lanesFinished, timer_heartbeats,
                   last_heartbeat, racestats, msg, timer, race_time, now,
                   race_state_pub, start_fresh, fleet, apiVars, clientVars, finishVars>>

\* where startRace returns to
AfterStartRace(t) == IF t = "main" THEN "led_stop" ELSE "send_start"

\* startRace, were it to reset the record on every call
StartRaceCheckAlways(t) ==
    /\ Running
    /\ pc[t] = "sr_check"
    /\ lanesFinished' = 0
    /\ timer' = [timer EXCEPT ![t] = now]
    /\ Goto(t, "sr_times")
    /\ UNCHANGED <<race_state, start_time, lane_times, timer_heartbeats,
                   last_heartbeat, racestats, msg, race_time, now, race_state_pub,
                   start_fresh, fleet, apiVars, clientVars, finishVars>>

\* startRace lines 250-255: timer = time.time(); if self.start_time == 0: lanesFinished = 0
StartRaceCheck(t) ==
    /\ Running
    /\ pc[t] = "sr_check"
    /\ IF start_time = 0
         THEN /\ lanesFinished' = 0
              /\ timer' = [timer EXCEPT ![t] = now]
              /\ Goto(t, "sr_times")
         ELSE /\ UNCHANGED <<lanesFinished, timer>>
              /\ Goto(t, AfterStartRace(t))
    /\ UNCHANGED <<race_state, start_time, lane_times, timer_heartbeats,
                   last_heartbeat, racestats, msg, race_time, now, race_state_pub,
                   start_fresh, fleet, apiVars, clientVars, finishVars>>

\* startRace line 256
StartRaceTimes(t) ==
    /\ Running
    /\ pc[t] = "sr_times"
    /\ lane_times' = EmptyMap
    /\ Goto(t, "sr_start")
    /\ UNCHANGED <<race_state, start_time, lanesFinished, timer_heartbeats,
                   last_heartbeat, racestats, msg, timer, race_time, now,
                   race_state_pub, start_fresh, fleet, apiVars, clientVars, finishVars>>

\* startRace, were it to mark the race as running itself
StartRaceStartSetsRacing(t) ==
    /\ Running
    /\ pc[t] = "sr_start"
    /\ start_time' = timer[t]
    /\ start_fresh' = TRUE
    /\ race_state' = "RACING"
    /\ timer' = [timer EXCEPT ![t] = 0]
    /\ Goto(t, AfterStartRace(t))
    /\ UNCHANGED <<lane_times, lanesFinished, timer_heartbeats,
                   last_heartbeat, racestats, msg, race_time, now,
                   race_state_pub, fleet, apiVars, clientVars, finishVars>>

\* startRace lines 257-269
StartRaceStart(t) ==
    /\ Running
    /\ pc[t] = "sr_start"
    /\ start_time' = timer[t]
    /\ start_fresh' = TRUE
    /\ timer' = [timer EXCEPT ![t] = 0]
    /\ Goto(t, AfterStartRace(t))
    /\ UNCHANGED <<race_state, lane_times, lanesFinished, timer_heartbeats,
                   last_heartbeat, racestats, msg, race_time, now,
                   race_state_pub, fleet, apiVars, clientVars, finishVars>>

\* setLEDFromRaceStat, were the poll to forget the timers when the heat is inactive
LedStopDropsHeartbeats ==
    /\ pc["main"] = "led_stop"
    /\ IF ~racestats.active
         THEN race_state' = "STOPPED" /\ start_fresh' = FALSE /\ timer_heartbeats' = EmptyMap
         ELSE UNCHANGED <<race_state, start_fresh, timer_heartbeats>>
    /\ Goto("main", "pub_state")
    /\ UNCHANGED <<start_time, lane_times, lanesFinished,
                   last_heartbeat, racestats, msg, timer, race_time, now,
                   race_state_pub, fleet, apiVars, clientVars, finishVars>>

\* setLEDFromRaceStat lines 216-218
LedStop ==
    /\ pc["main"] = "led_stop"
    /\ IF ~racestats.active
         THEN race_state' = "STOPPED" /\ start_fresh' = FALSE
         ELSE UNCHANGED <<race_state, start_fresh>>
    /\ Goto("main", "pub_state")
    /\ UNCHANGED <<start_time, lane_times, lanesFinished, timer_heartbeats,
                   last_heartbeat, racestats, msg, timer, race_time, now,
                   race_state_pub, fleet, apiVars, clientVars, finishVars>>

\* the payload, were it taken from the polled status instead of race_state
PublishedStateFromPoll ==
    IF ~racestats.active THEN "STOPPED"
    ELSE IF racestats.running THEN "RACING" ELSE "STAGING"

\* the payload updateFromDerbyAPI line 191 publishes
PublishedState == race_state

\* updateFromDerbyAPI lines 188-193: publish race_state on derbynet/race/state.
\* With rc # 0 (no connection) line 193 reads result.error_string, which
\* the publish result does not have: the AttributeError ends the process.
PubState ==
    /\ pc["main"] = "pub_state"
    /\ racestats' = NoStats
    /\ \E rc \in {0, 1} :
         IF rc = 0
         THEN race_state_pub' = PublishedState /\ Goto("main", "telemetry")
         ELSE race_state_pub' = race_state_pub /\ Goto("main", "exited")
    /\ UNCHANGED <<race_state, start_time, lane_times, lanesFinished,
                   timer_heartbeats, last_heartbeat, msg, timer, race_time, now,
                   start_fresh, fleet, apiVars, clientVars, finishVars>>

\* __main__ lines 462-469: sendServerTelemetry, then sleep and poll again;
\* an exception (also SystemExit) ends the process
ServerTelemetry ==
    /\ pc["main"] = "telemetry"
    /\ \E r \in ApiOutcomes :
         IF r \in {"True", "False"} THEN Goto("main", "poll")
                                    ELSE Goto("main", "exited")
    /\ race_state_pub' = "none"
    /\ UNCHANGED <<race_state, start_time, lane_times, lanesFinished,
                   timer_heartbeats, last_heartbeat, racestats, msg, timer,
                   race_time, now, start_fresh, fleet, apiVars, clientVars, finishVars>>

\* the finish trigger, were it to accept a timer with no lane set
FinishCondAnyLane(m) == race_state = "RACING" /\ m.toggle # "true"

\* --------------------------------------------------- MQTT callback thread
\* on_message line 150, with "state" in topic: a state message of a lane > 0
\* whose toggle is false or missing is a finish while RACING
FinishCond(m) == race_state = "RACING" /\ m.lane > 0 /\ m.toggle # "true"

\* the GO trigger, were it to forget the STAGING check
GoCondAnyState(m) == m.val = "GO"

\* on_message line 143-145, with "state" in topic: GO starts the race only in STAGING
GoCond(m) == race_state = "STAGING" /\ m.val = "GO"

\* the handler is left: its locals are gone
EndHandler(l) ==
    /\ Goto("cb", l)
    /\ msg' = NoMsg
    /\ race_time' = 0
    /\ timer' = [timer EXCEPT !["cb"] = 0]

\* on_message lines 123-161 for a message on a state topic: decode the
\* payload, lane = getDIPName(dip), then the START RACE and LANE FINISH triggers
ReceiveState ==
    /\ Running
    /\ pc["cb"] = "idle"
    /\ \E m \in ToggleMessages(fleet) \cup StartMessages :
         LET d == [topic |-> m.topic, dip |-> m.dip, val |-> m.val,
                   toggle |-> m.toggle, ready |-> m.ready,
                   lane |-> getDIPName(m.dip)]
         IN  IF GoCond(d) \/ FinishCond(d)
             THEN /\ msg' = d
                  /\ Goto("cb", IF GoCond(d) THEN "sr_check" ELSE "lf_time")
                  /\ UNCHANGED <<race_time, timer>>
             ELSE EndHandler("idle")
    /\ UNCHANGED <<race_state, start_time, lane_times, lanesFinished,
                   timer_heartbeats, last_heartbeat, racestats, now,
                   race_state_pub, start_fresh, fleet, apiVars, clientVars, finishVars>>

\* on_message lines 147-161: self.api.send_start(), then the LANE FINISH
\* trigger for the same message; an Exception is caught by line 175 and ends
\* the handler, SystemExit ends the network thread
SendStart ==
    /\ Running
    /\ pc["cb"] = "send_start"
    /\ \E r \in ApiOutcomes :
         CASE r \in {"True", "False"} ->
                IF FinishCond(msg)
                THEN Goto("cb", "lf_time") /\ UNCHANGED <<msg, race_time, timer>>
                ELSE EndHandler("idle")
           [] r = "raise" -> EndHandler("idle")
           [] r = "exit" -> EndHandler("dead")
    /\ UNCHANGED <<race_state, start_time, lane_times, lanesFinished,
                   timer_heartbeats, last_heartbeat, racestats, now,
                   race_state_pub, start_fresh, fleet, apiVars, clientVars, finishVars>>

\* laneFinish lines 288-292: elapsed time, or 0.0 without a start time
RaceTime(t, start) == IF start > 0 THEN t - start ELSE 0

\* laneFinish lines 284-292
LaneFinishTime ==
    /\ Running
    /\ pc["cb"] = "lf_time"
    /\ lanesFinished < MaxFinished
    /\ race_time' = RaceTime(now, start_time)
    /\ Goto("cb", "lf_write")
    /\ UNCHANGED <<race_state, start_time, lane_times, lanesFinished,
                   timer_heartbeats, last_heartbeat, racestats, msg, timer, now,
                   race_state_pub, start_fresh, fleet, apiVars, clientVars, finishVars>>

\* the lanes whose finish laneFinish line 295 records
FinishLanes(lane) == {lane}

\* laneFinish line 295: self.lane_times[lane] = race_time
LaneFinishWrite ==
    /\ Running
    /\ pc["cb"] = "lf_write"
    /\ lane_times' = [l \in DOMAIN lane_times \cup FinishLanes(msg.lane) |->
                         IF l \in FinishLanes(msg.lane) THEN race_time ELSE lane_times[l]]
    /\ Goto("cb", "lf_inc")
    /\ UNCHANGED <<race_state, start_time, lanesFinished, timer_heartbeats,
                   last_heartbeat, racestats, msg, timer, race_time, now,
                   race_state_pub, start_fresh, fleet, apiVars, clientVars, finishVars>>

\* laneFinish line 296: self.lanesFinished += 1
LaneFinishCount ==
    /\ Running
    /\ pc["cb"] = "lf_inc"
    /\ lanesFinished' = lanesFinished + 1
    /\ Goto("cb", "lf_done")
    /\ UNCHANGED <<race_state, start_time, lane_times, timer_heartbeats,
                   last_heartbeat, racestats, msg, timer, race_time, now,
                   race_state_pub, start_fresh, fleet, apiVars, clientVars, finishVars>>

\* laneFinish line 306: the race is complete
RaceComplete == lanesFinished = lane_count

\* laneFinish lines 306-311
LaneFinishDone ==
    /\ Running
    /\ pc["cb"] = "lf_done"
    /\ IF RaceComplete
         THEN Goto("cb", "stop_state") /\ UNCHANGED <<msg, race_time, timer>>
         ELSE EndHandler("idle")
    /\ UNCHANGED <<race_state, start_time, lane_times, lanesFinished,
                   timer_heartbeats, last_heartbeat, racestats, now,
                   race_state_pub, start_fresh, fleet, apiVars, clientVars, finishVars>>

\* stopRace lines 275-277
StopRaceState ==
    /\ Running
    /\ pc["cb"] = "stop_state"
    /\ race_state' = "STOPPED"
    /\ start_fresh' = FALSE
    /\ Goto("cb", "stop_send")
    /\ UNCHANGED <<start_time, lane_times, lanesFinished, timer_heartbeats,
                   last_heartbeat, racestats, msg, timer, race_time, now,
                   race_state_pub, fleet, apiVars, clientVars, finishVars>>

\* where stopRace continues when send_finish raised an Exception
AfterFinishRaised == "idle"

\* stopRace line 278: self.api.send_finish(roundid, heatid, lane_times)
StopRaceSend ==
    /\ Running
    /\ pc["cb"] = "stop_send"
    /\ \E r \in ApiOutcomes :
         CASE r \in {"True", "False"} -> Goto("cb", "stop_reset") /\ UNCHANGED <<msg, race_time, timer>>
           [] r = "raise" ->
                IF AfterFinishRaised = "idle" THEN EndHandler("idle")
                ELSE Goto("cb", AfterFinishRaised) /\ UNCHANGED <<msg, race_time, timer>>
           [] r = "exit" -> EndHandler("dead")
    /\ UNCHANGED <<race_state, start_time, lane_times, lanesFinished,
                   timer_heartbeats, last_heartbeat, racestats, now,
                   race_state_pub, start_fresh, fleet, apiVars, clientVars, finishVars>>

\* stopRace line 279
StopRaceCount ==
    /\ Running
    /\ pc["cb"] = "stop_reset"
    /\ lanesFinished' = 0
    /\ Goto("cb", "stop_times")
    /\ UNCHANGED <<race_state, start_time, lane_times, timer_heartbeats,
                   last_heartbeat, racestats, msg, timer, race_time, now,
                   race_state_pub, start_fresh, fleet, apiVars, clientVars, finishVars>>

\* stopRace line 280
StopRaceTimes ==
    /\ Running
    /\ pc["cb"] = "stop_times"
    /\ lane_times' = EmptyMap
    /\ Goto("cb", "stop_start")
    /\ UNCHANGED <<race_state, start_time, lanesFinished, timer_heartbeats,
                   last_heartbeat, racestats, msg, timer, race_time, now,
                   race_state_pub, start_fresh, fleet, apiVars, clientVars, finishVars>>

\* stopRace line 281, then laneFinish returns True and the handler ends
StopRaceStart ==
    /\ Running
    /\ pc["cb"] = "stop_start"
    /\ start_time' = 0
    /\ start_fresh' = FALSE
    /\ EndHandler("idle")
    /\ UNCHANGED <<race_state, lane_times, lanesFinished, timer_heartbeats,
                   last_heartbeat, racestats, now, race_state_pub, fleet, apiVars, clientVars, finishVars>>

\* timerHeartbeat lines 318-334: record the heartbeat, drop the timers not
\* heard of for HEARTBEAT_TIMEOUT seconds
HeartbeatsAfter(hb, lane, isReady, t) ==
    LET put == [l \in DOMAIN hb \cup {lane} |->
                  IF l = lane THEN [time |-> t, isReady |-> isReady] ELSE hb[l]]
        active == {l \in DOMAIN put : put[l].time > t - HEARTBEAT_TIMEOUT}
    IN  [l \in active |-> put[l]]

\* timerHeartbeat line 337: a pulse to the API is due
PulseDue(t) == last_heartbeat = 0 \/ t - last_heartbeat > HEARTBEAT_PULSE

\* the telemetry handler, were a ready timer to put a stopped race in staging
ReceiveTelemetryStages ==
    /\ Running
    /\ pc["cb"] = "idle"
    /\ \E m \in TelemetryMessages(fleet), r \in ApiOutcomes, h \in ApiOutcomes :
         LET lane == getDIPName(m.dip)
         IN  IF r \in {"True", "False"} /\ lane > 0
             THEN /\ timer_heartbeats' = HeartbeatsAfter(timer_heartbeats, lane, m.ready, now)
                  /\ last_heartbeat' = IF PulseDue(now) THEN now ELSE last_heartbeat
                  /\ race_state' = IF m.ready /\ race_state = "STOPPED"
                                     THEN "STAGING" ELSE race_state
                  /\ EndHandler(IF PulseDue(now) /\ h = "exit" THEN "dead" ELSE "idle")
             ELSE /\ UNCHANGED <<timer_heartbeats, last_heartbeat, race_state>>
                  /\ EndHandler(IF r = "exit" THEN "dead" ELSE "idle")
    /\ UNCHANGED <<start_time, lane_times, lanesFinished,
                   racestats, now, race_state_pub, fleet, start_fresh, apiVars, clientVars, finishVars>>

\* on_message lines 123-134 and 164-171 for a message on a telemetry topic:
\* self.api.send_device_status, then timerHeartbeat (lines 313-341) with
\* self.api.send_timer_heartbeat when the lane is known.  Nothing here is
\* read or written by the main thread, so the handler is one step.
ReceiveTelemetry ==
    /\ Running
    /\ pc["cb"] = "idle"
    /\ \E m \in TelemetryMessages(fleet), r \in ApiOutcomes, h \in ApiOutcomes :
         LET lane == getDIPName(m.dip)
         IN  IF r \in {"True", "False"} /\ lane > 0
             THEN /\ timer_heartbeats' = HeartbeatsAfter(timer_heartbeats, lane, m.ready, now)
                  /\ last_heartbeat' = IF PulseDue(now) THEN now ELSE last_heartbeat
                  /\ EndHandler(IF PulseDue(now) /\ h = "exit" THEN "dead" ELSE "idle")
             ELSE /\ UNCHANGED <<timer_heartbeats, last_heartbeat>>
                  /\ EndHandler(IF r = "exit" THEN "dead" ELSE "idle")
    /\ UNCHANGED <<race_state, start_time, lane_times, lanesFinished,
                   racestats, now, race_state_pub, start_fresh, fleet, apiVars, clientVars, finishVars>>

\* ------------------------------------------------------------ API client
\* the calls the coordinator makes on each thread: the main thread in
\* updateFromDerbyAPI and sendServerTelemetry, the callback thread in on_message
Calls(t) ==
    IF t = "main" THEN {"get_race_status", "send_device_status"}
    ELSE {"send_device_status", "send_timer_heartbeat", "send_start", "send_finish"}

\* Python truth of self.authcode: None and "" are false
Authed(a) == a \notin {"None", ""}

SetApi(t, r) == api' = [api EXCEPT ![t] = r]

\* a call is made
ApiCall(t) ==
    /\ Running
    /\ pc[t] # "dead"
    /\ api[t].pc = "idle"
    /\ \E f \in Calls(t) : SetApi(t, [ApiIdle EXCEPT !.fn = f, !.pc = "enter"])
    /\ UNCHANGED <<authcode, timer_state, last_heartbeat_time, raceVars, clientVars, finishVars, posted, pc, now>>

\* the throttle without its exemption of the first heartbeat
ThrottledAlsoFirst(t) ==
    /\ api[t].fn = "send_timer_heartbeat"
    /\ now - last_heartbeat_time < HEARTBEAT_INTERVAL
    /\ now - last_heartbeat_time < HEARTBEAT_INTERVAL - 5

\* send_timer_heartbeat lines 107-112: nothing is sent while the last
\* heartbeat is recent
Throttled(t) ==
    /\ api[t].fn = "send_timer_heartbeat"
    /\ now - last_heartbeat_time < HEARTBEAT_INTERVAL
    /\ now - last_heartbeat_time < HEARTBEAT_INTERVAL - 5
    /\ last_heartbeat_time > 0

\* the state set_timer_state is called with before the request is built:
\* send_start line 202, send_finish line 251
StateBeforeRequest(f) ==
    IF f = "send_start" THEN TIMER_STATE_RUNNING
    ELSE IF f = "send_finish" THEN TIMER_STATE_CONNECTED
    ELSE timer_state

\* the payload a call builds before its request (only the heartbeat's is modelled)
PayloadOf(f) ==
    IF f = "send_timer_heartbeat" THEN HeartbeatPayload(timer_heartbeats) ELSE NoPayload

\* set_timer_state lines 181-189
set_timer_state(new) ==
    /\ timer_state' = new
    /\ last_heartbeat_time' = IF timer_state # new THEN 0 ELSE last_heartbeat_time

\* the first statements of a call: the heartbeat throttle, the check of
\* self.authcode (lines 114, 195, 244, 325, 376) and set_timer_state
ApiEnter(t) ==
    /\ Running
    /\ api[t].pc = "enter"
    /\ IF Throttled(t)
         THEN /\ SetApi(t, [api[t] EXCEPT !.pc = "done", !.ret = "True"])
              /\ UNCHANGED <<timer_state, last_heartbeat_time>>
         ELSE IF ~Authed(authcode)
         THEN /\ SetApi(t, [api[t] EXCEPT !.pc = "login", !.ctx = "enter", !.current_time = now])
              /\ UNCHANGED <<timer_state, last_heartbeat_time>>
         ELSE /\ SetApi(t, [api[t] EXCEPT !.pc = "send", !.current_time = now,
                                             !.payload = PayloadOf(api[t].fn)])
              /\ set_timer_state(StateBeforeRequest(api[t].fn))
    /\ UNCHANGED <<authcode, raceVars, clientVars, finishVars, posted, pc, now>>

\* login line 66: self.authcode = None
ApiLoginBegin(t) ==
    /\ Running
    /\ api[t].pc = "login"
    /\ authcode' = "None"
    /\ SetApi(t, [api[t] EXCEPT !.pc = "login_wait"])
    /\ UNCHANGED <<timer_state, last_heartbeat_time, raceVars, clientVars, finishVars, posted, pc, now>>

\* how a login ends: a session cookie, success without a Set-Cookie header,
\* a rejected login, no HTTP 200 in 4 attempts (exit(1)), a body that is not JSON
LoginOutcomes == {"cookie", "nocookie", "rejected", "unreachable", "badjson"}

\* login lines 72-96
ApiLoginEnd(t) ==
    /\ Running
    /\ api[t].pc = "login_wait"
    /\ \E o \in LoginOutcomes :
         CASE o = "cookie" ->
                /\ authcode' = "cookie"
                /\ timer_state' = TIMER_STATE_CONNECTED
                /\ SetApi(t, [api[t] EXCEPT !.pc = "login_ret", !.ret = "cookie"])
           [] o = "nocookie" ->
                /\ authcode' = ""
                /\ timer_state' = TIMER_STATE_CONNECTED
                /\ SetApi(t, [api[t] EXCEPT !.pc = "login_ret", !.ret = ""])
           [] o = "rejected" ->
                /\ authcode' = authcode
                /\ timer_state' = TIMER_STATE_NOT_CONNECTED
                /\ SetApi(t, [api[t] EXCEPT !.pc = "login_ret", !.ret = "None"])
           [] o = "unreachable" ->
                /\ authcode' = authcode
                /\ timer_state' = TIMER_STATE_NOT_CONNECTED
                /\ SetApi(t, [api[t] EXCEPT !.pc = "exit"])
           [] o = "badjson" ->
                /\ UNCHANGED <<authcode, timer_state>>
                /\ SetApi(t, [api[t] EXCEPT !.pc = "raised"])
    /\ UNCHANGED <<last_heartbeat_time, raceVars, clientVars, finishVars, posted, pc, now>>

\* the call calls itself again (lines 153, 216, 229, 265, 278, 340, 409);
\* past the recursion limit that raises RecursionError
Recurse(t) ==
    \/ SetApi(t, [api[t] EXCEPT !.pc = "enter", !.ctx = "none", !.ret = "None",
                                 !.payload = NoPayload, !.response = "none"])
    \/ SetApi(t, [api[t] EXCEPT !.pc = "raised", !.ctx = "none", !.ret = "None"])

\* self.authcode = self.login() and what the caller does with it: at the
\* head of a call, after a 401 response, after a <failure> reply
ApiLoginReturn(t) ==
    /\ Running
    /\ api[t].pc = "login_ret"
    /\ authcode' = api[t].ret
    /\ CASE api[t].ctx = "enter" ->
              IF Authed(api[t].ret)
              THEN /\ SetApi(t, [api[t] EXCEPT !.pc = "send", !.ctx = "none", !.ret = "None",
                                                  !.payload = PayloadOf(api[t].fn)])
                   /\ set_timer_state(StateBeforeRequest(api[t].fn))
              ELSE /\ SetApi(t, [api[t] EXCEPT !.pc = "done", !.ret = "False"])
                   /\ timer_state' = IF api[t].fn = "send_timer_heartbeat"
                                       THEN TIMER_STATE_NOT_CONNECTED ELSE timer_state
                   /\ UNCHANGED last_heartbeat_time
         [] api[t].ctx = "401" ->
              /\ Recurse(t)
              /\ UNCHANGED <<timer_state, last_heartbeat_time>>
         [] api[t].ctx = "failure" ->
              IF Authed(api[t].ret)
              THEN /\ Recurse(t)
                   /\ UNCHANGED <<timer_state, last_heartbeat_time>>
              ELSE /\ SetApi(t, [api[t] EXCEPT !.pc = "done", !.ret = "False"])
                   /\ set_timer_state(TIMER_STATE_NOT_CONNECTED)
    /\ UNCHANGED <<raceVars, clientVars, finishVars, posted, pc, now>>

\* what the server answers: 200 (for the timer messages with a <success>
\* reply, a <failure> reply, a reply with neither, a body that is not XML),
\* 401, or a failed request (RequestException); the body of a
\* get_race_status reply may fail to parse as JSON
Responses(f) ==
    IF f \in {"send_start", "send_finish"}
    THEN {"success", "failure", "neither", "malformed", "401", "error"}
    ELSE IF f = "get_race_status"
    THEN {"success", "malformed", "401", "error"}
    ELSE {"success", "401", "error"}

\* the Cookie header of the request: self.authcode as the headers are built
\* (lines 146, 209, 259, 332, 383)
CookieSent == authcode

\* the request and the handling of its response
ApiSend(t) ==
    /\ Running
    /\ api[t].pc = "send"
    /\ \E r \in Responses(api[t].fn) :
         CASE r = "success" ->
                /\ SetApi(t, [api[t] EXCEPT !.pc = "done", !.response = r,
                       !.ret = IF api[t].fn = "get_race_status" THEN "dict" ELSE "True"])
                /\ IF api[t].fn = "send_timer_heartbeat"
                     THEN last_heartbeat_time' = api[t].current_time /\ timer_state' = timer_state
                     ELSE IF api[t].fn = "get_race_status"
                     THEN /\ timer_state' \in {timer_state, TIMER_STATE_CONNECTED,
                                                TIMER_STATE_STAGING, TIMER_STATE_RUNNING}
                          /\ UNCHANGED last_heartbeat_time
                     ELSE UNCHANGED <<timer_state, last_heartbeat_time>>
           [] r = "neither" ->
                /\ SetApi(t, [api[t] EXCEPT !.pc = "done", !.ret = "False", !.response = r])
                /\ UNCHANGED <<timer_state, last_heartbeat_time>>
           [] r = "malformed" ->
                /\ SetApi(t, [api[t] EXCEPT !.pc = "raised", !.response = r])
                /\ UNCHANGED <<timer_state, last_heartbeat_time>>
           [] r \in {"401", "failure"} ->
                /\ SetApi(t, [api[t] EXCEPT !.pc = "login", !.ctx = r, !.response = r])
                /\ UNCHANGED <<timer_state, last_heartbeat_time>>
           [] r = "error" ->
                /\ SetApi(t, [api[t] EXCEPT !.pc = "done", !.ret = "False", !.response = r])
                /\ IF api[t].fn = "send_device_status"
                     THEN UNCHANGED <<timer_state, last_heartbeat_time>>
                     ELSE IF api[t].fn = "send_timer_heartbeat"
                     THEN /\ timer_state' = IF timer_state # TIMER_STATE_NOT_CONNECTED
                                              THEN TIMER_STATE_UNHEALTHY ELSE timer_state
                          /\ UNCHANGED last_heartbeat_time
                     ELSE set_timer_state(TIMER_STATE_UNHEALTHY)
    /\ posted' = IF api[t].fn = "send_timer_heartbeat" /\ api'[t].response = "success"
                   THEN api[t].payload ELSE posted
    /\ UNCHANGED <<authcode, raceVars, clientVars, finishVars, pc, now>>

\* the call is over.  On the main thread an exception, exit(1) and the False
\* of get_race_status end the process (__main__ lines 459-468); on the
\* callback thread on_message catches the exception and exit(1) ends the thread
ApiReturn(t) ==
    /\ Running
    /\ api[t].pc \in {"done", "raised", "exit"}
    /\ SetApi(t, ApiIdle)
    /\ pc' = [pc EXCEPT ![t] =
                 IF t = "main"
                 THEN IF \/ api[t].pc \in {"raised", "exit"}
                         \/ api[t].fn = "get_race_status" /\ api[t].ret = "False"
                      THEN "exited" ELSE pc[t]
                 ELSE IF api[t].pc = "exit" THEN "dead" ELSE pc[t]]
    /\ UNCHANGED <<authcode, timer_state, last_heartbeat_time, raceVars, clientVars, finishVars, posted, now>>

ApiStep(t) ==
    \/ ApiCall(t)
    \/ ApiEnter(t)
    \/ ApiLoginBegin(t)
    \/ ApiLoginEnd(t)
    \/ ApiLoginReturn(t)
    \/ ApiSend(t)
    \/ ApiReturn(t)

ApiNext == (\E t \in Threads : ApiStep(t)) \/ Tick

ApiSpec == Init /\ [][ApiNext]_vars

\* ------------------------------------------------------- specifications
MainStep ==
    \/ Poll
    \/ LedStaging
    \/ LedRacing
    \/ StartRaceCheck("main")
    \/ StartRaceTimes("main")
    \/ StartRaceStart("main")
    \/ LedStop
    \/ PubState
    \/ ServerTelemetry

CallbackStep ==
    \/ ReceiveState
    \/ ReceiveTelemetry
    \/ StartRaceCheck("cb")
    \/ StartRaceTimes("cb")
    \/ StartRaceStart("cb")
    \/ SendStart
    \/ LaneFinishTime
    \/ LaneFinishWrite
    \/ LaneFinishCount
    \/ LaneFinishDone
    \/ StopRaceState
    \/ StopRaceSend
    \/ StopRaceCount
    \/ StopRaceTimes
    \/ StopRaceStart

Next == MainStep \/ CallbackStep \/ Tick

Spec == Init /\ [][Next]_vars

TypeOK ==
    /\ race_state \in {"STOPPED", "STAGING", "RACING"}
    /\ start_time \in 0..MaxTime
    /\ lanesFinished \in 0..MaxFinished
    /\ now \in 1..MaxTime

\* The serial schedules of Spec: a poll cycle and a message handler each run
\* to their end before the other thread takes a step.
SerialNext ==
    \/ pc["cb"] \in {"idle", "dead"} /\ MainStep
    \/ pc["main"] = "poll" /\ CallbackStep
    \/ Tick

SerialSpec == Init /\ [][SerialNext]_vars

\* the main thread keeps being scheduled and each of its calls returns
\* (every request has a 5 second timeout, login gives up after 4 attempts)
FairSpec == Spec /\ WF_vars(MainStep)

\* timerHeartbeat lines 313-341 with its call of send_timer_heartbeat taken
\* statement by statement: the handler records the heartbeat, drops the
\* offline timers and, when a pulse is due, enters the API call
timerHeartbeat ==
    /\ Running
    /\ pc["cb"] = "idle"
    /\ api["cb"].pc = "idle"
    /\ \E m \in TelemetryMessages(fleet) :
         /\ getDIPName(m.dip) > 0
         /\ timer_heartbeats' = HeartbeatsAfter(timer_heartbeats, getDIPName(m.dip), m.ready, now)
    /\ IF PulseDue(now)
         THEN /\ last_heartbeat' = now
              /\ SetApi("cb", [ApiIdle EXCEPT !.fn = "send_timer_heartbeat", !.pc = "enter"])
         ELSE UNCHANGED <<last_heartbeat, api>>
    /\ UNCHANGED <<race_state, start_time, lane_times, lanesFinished, pc, racestats,
                   msg, timer, race_time, now, race_state_pub, start_fresh, fleet,
                   authcode, timer_state, last_heartbeat_time, posted, clientVars, finishVars>>

\* The periods that matter to the code: longer than a heartbeat pulse, the
\* heartbeat timeout, the start of the last 5 seconds before the API's
\* heartbeat deadline, longer than the lane finish timeout.
Pauses == {HEARTBEAT_PULSE + 1, HEARTBEAT_TIMEOUT, HEARTBEAT_INTERVAL - 5,
           LANE_FINISH_TIMEOUT + 1}

\* nothing happens for a while: the main loop sleeps, no message arrives
Pause ==
    /\ Running
    /\ pc["main"] = "poll"
    /\ pc["cb"] \in {"idle", "dead"}
    /\ now <= MaxTime
    /\ \E d \in Pauses : now' = now + d
    /\ UNCHANGED <<race_state, start_time, lane_times, lanesFinished,
                   timer_heartbeats, last_heartbeat, pc, racestats, msg, timer,
                   race_time, race_state_pub, start_fresh, fleet, apiVars, clientVars, finishVars>>

\* The serial schedules with pauses, in which the main loop keeps running
\* (time.sleep(0.75) between poll cycles) and a message handler that has
\* begun runs to its end; whether a message arrives is up to the timers.
TimeoutNext == SerialNext \/ Pause

TimeoutSpec ==
    /\ Init
    /\ [][TimeoutNext]_vars
    /\ WF_vars(pc["cb"] \in {"idle", "dead"} /\ MainStep)
    /\ WF_vars(pc["cb"] \notin {"idle", "dead"} /\ CallbackStep)

\* The callback thread's telemetry handling and API calls, statement by
\* statement, over the periods of the heartbeat throttle.
\* on_message's other API calls: send_device_status, send_start, send_finish
OtherCall == ApiCall("cb") /\ api'["cb"].fn # "send_timer_heartbeat"

HeartbeatNext ==
    \/ timerHeartbeat
    \/ OtherCall
    \/ ApiEnter("cb")
    \/ ApiLoginBegin("cb")
    \/ ApiLoginEnd("cb")
    \/ ApiLoginReturn("cb")
    \/ ApiSend("cb")
    \/ ApiReturn("cb")
    \/ Tick
    \/ Pause

HeartbeatSpec == Init /\ [][HeartbeatNext]_vars

\* ------------------------------------------------- shared MQTT client
\* common/derbynet.py.  A message is the n-th one handed to publish; paho
\* accepts every message (a topic or payload it rejects raises in publish
\* when the client is connected).
coordVars == <<raceVars, apiVars, pc, now>>

\* MessageQueue.put lines 66-80: a new message record with a fresh uuid4,
\* queued and saved to <id>.json
put(n) ==
    /\ next_id' = next_id + 1
    /\ message_queue' = Append(message_queue, [id |-> next_id + 1, n |-> n])
    /\ queue_dir' = queue_dir \cup {[id |-> next_id + 1, n |-> n]}

\* the results of paho's client.publish: rc = MQTT_ERR_SUCCESS or another rc
PublishResults == {"success", "failed"}

\* MQTTClient.publish lines 177-192
publish ==
    /\ \E n \in 1..MaxMessages :
         /\ handed[n] = "none"
         /\ \A k \in 1..(n - 1) : handed[k] # "none"
         /\ \E rc \in PublishResults :
              IF connected /\ rc = "success"
              THEN /\ delivered' = delivered \cup {n}
                   /\ handed' = [handed EXCEPT ![n] = "True"]
                   /\ UNCHANGED <<message_queue, queue_dir, next_id>>
              ELSE /\ put(n)
                   /\ handed' = [handed EXCEPT ![n] = "False"]
                   /\ UNCHANGED delivered
    /\ UNCHANGED <<connected, coordVars, finishVars>>

\* one turn of the queue processor's loop that does not put a message back
\* when its publish fails
process_queue_drops ==
    /\ connected
    /\ message_queue # << >>
    /\ \E rc \in PublishResults :
         IF rc = "success"
         THEN /\ delivered' = delivered \cup {Head(message_queue).n}
              /\ message_queue' = Tail(message_queue)
              /\ queue_dir' = queue_dir \ {Head(message_queue)}
              /\ UNCHANGED next_id
         ELSE /\ message_queue' = Tail(message_queue)
              /\ UNCHANGED <<delivered, queue_dir, next_id>>
    /\ UNCHANGED <<connected, handed, coordVars, finishVars>>

\* _process_queue lines 255-283, one turn of the loop: the first message is
\* taken from the queue and published; on success task_done removes its
\* file, otherwise it is put back under a new id (its old file stays)
process_queue ==
    /\ connected
    /\ message_queue # << >>
    /\ \E rc \in PublishResults :
         IF rc = "success"
         THEN /\ delivered' = delivered \cup {Head(message_queue).n}
              /\ message_queue' = Tail(message_queue)
              /\ queue_dir' = queue_dir \ {Head(message_queue)}
              /\ UNCHANGED next_id
         ELSE /\ next_id < MaxIds
              /\ next_id' = next_id + 1
              /\ message_queue' = Append(Tail(message_queue),
                                         [id |-> next_id + 1, n |-> Head(message_queue).n])
              /\ queue_dir' = queue_dir \cup {[id |-> next_id + 1, n |-> Head(message_queue).n]}
              /\ UNCHANGED delivered
    /\ UNCHANGED <<connected, handed, coordVars, finishVars>>

\* _on_connect lines 215-227 with rc = 0
on_connect ==
    /\ ~connected
    /\ connected' = TRUE
    /\ UNCHANGED <<message_queue, queue_dir, next_id, handed, delivered, coordVars, finishVars>>

\* _on_disconnect lines 229-233
on_disconnect ==
    /\ connected
    /\ connected' = FALSE
    /\ UNCHANGED <<message_queue, queue_dir, next_id, handed, delivered, coordVars, finishVars>>

\* the files of a set in the order of sorted(os.listdir(queue_dir))
RECURSIVE Sorted(_)
Sorted(files) ==
    IF files = {} THEN << >>
    ELSE LET first == CHOOSE f \in files : \A g \in files : f.id <= g.id
         IN  <<first>> \o Sorted(files \ {first})

\* the process is started again: MQTTClient.__init__ lines 130-139 with
\* MessageQueue.__init__ and _load_from_disk lines 109-121
load_from_disk ==
    /\ connected' = FALSE
    /\ message_queue' = Sorted(queue_dir)
    /\ UNCHANGED <<queue_dir, next_id, handed, delivered, coordVars, finishVars>>

\* the queue processor takes a message and the publish succeeds
process_queue_success == process_queue /\ Len(message_queue') < Len(message_queue)

ClientNext == publish \/ process_queue \/ on_connect \/ on_disconnect \/ load_from_disk

\* The queue processor thread and the connection monitor keep running
\* (_process_queue, _monitor_connection), and on a connection that keeps
\* coming back a publish goes through in the end.
ClientSpec ==
    /\ Init
    /\ [][ClientNext]_vars
    /\ WF_vars(on_connect)
    /\ SF_vars(process_queue_success)

\* ------------------------------------------------------- finish timer
\* finishtimer/files/finishtimer.py from the first turn of main's loop on
\* (initMQTT and pcb.begin_toggle_watch are done).  A message is the kind'th
\* message of the event'th call that sends it: the loop's send_telemetry
\* is event 0, the calls of toggle_callback are events 1, 2, ...
restVars == <<coordVars, clientVars, retryVars>>

Message(kind, event, qos) ==
    [kind |-> kind, event |-> event, qos |-> qos, timestamp |-> now]

\* the queue, the stored mqtt_*.json files and what the broker has
Outbox == [queue |-> mqtt_offline_queue, dir |-> offline_dir, got |-> got]

\* publish_with_offline_support lines 333-349 for message m, where online
\* is client.is_connected() and rc the result of client.publish
publish_with_offline_support(box, m, online, rc) ==
    IF online
    THEN IF rc = "success"
         THEN [box EXCEPT !.got = @ \cup {m}]
         ELSE [box EXCEPT !.queue = Append(@, m)]
    ELSE [box EXCEPT !.queue = Append(@, m),
                     !.dir = IF m.qos >= 1 THEN @ \cup {m} ELSE @]

\* send_telemetry lines 149-158: the telemetry and the status message
send_telemetry(box, event, online, r1, r2) ==
    publish_with_offline_support(
        publish_with_offline_support(box, Message("telemetry", event, 1), online, r1),
        Message("status", event, 1), online, r2)

TelemetryOf(event) == {Message("telemetry", event, 1), Message("status", event, 1)}

SetOutbox(box) ==
    /\ mqtt_offline_queue' = box.queue
    /\ offline_dir' = box.dir
    /\ got' = box.got

\* the process runs: shutdown has not been called
TimerAlive == ft_pc # "exited"

\* toggle_callback lines 126-147 as a step on the outbox: the toggle
\* message with QoS 2, then send_telemetry
ToggleSent(online, r1, r2, r3) ==
    /\ SetOutbox(send_telemetry(
           publish_with_offline_support(Outbox, Message("toggle", calls + 1, 2), online, r1),
           calls + 1, online, r2, r3))
    /\ given' = given \cup {Message("toggle", calls + 1, 2)} \cup TelemetryOf(calls + 1)
    /\ calls' = calls + 1

\* the toggle watch thread sees the switch change
toggle_callback ==
    /\ TimerAlive
    /\ calls < MaxToggles
    /\ \E r1 \in PublishResults, r2 \in PublishResults, r3 \in PublishResults :
         ToggleSent(is_connected, r1, r2, r3)
    /\ UNCHANGED <<ft_pc, is_connected, restVars>>

\* main lines 208-209: send_telemetry() at the head of the loop
main_send_telemetry ==
    /\ ft_pc = "send_telemetry"
    /\ \E r1 \in PublishResults, r2 \in PublishResults :
         SetOutbox(send_telemetry(Outbox, 0, is_connected, r1, r2))
    /\ given' = given \cup TelemetryOf(0)
    /\ ft_pc' = "check"
    /\ UNCHANGED <<is_connected, calls, restVars>>

\* main lines 215-237.  mqtt_connected is assigned in main (lines 217, 220)
\* and main declares only led and pinny global (line 195), so it is a local
\* of main: its read at line 215 raises UnboundLocalError, the handler at
\* line 233 calls shutdown, which closes the PCB, disconnects the client and
\* exits.
main_connection_check ==
    /\ ft_pc = "check"
    /\ ft_pc' = "exited"
    /\ is_connected' = FALSE
    /\ UNCHANGED <<mqtt_offline_queue, offline_dir, got, given, calls, restVars>>

\* on_connect lines 61-83 with rc = 0, up to its call of
\* process_offline_messages: the client is connected, and
\* sync_state_after_reconnect calls toggle_callback.  (The "online" status
\* and the reconnection telemetry go straight to client.publish.)
ft_on_connect ==
    /\ TimerAlive
    /\ ~is_connected
    /\ calls < MaxToggles
    /\ is_connected' = TRUE
    /\ \E r1 \in PublishResults, r2 \in PublishResults, r3 \in PublishResults :
         ToggleSent(TRUE, r1, r2, r3)
    /\ UNCHANGED <<ft_pc, restVars>>

\* on_disconnect lines 89-98: the connection is lost
ft_on_disconnect ==
    /\ TimerAlive
    /\ is_connected
    /\ is_connected' = FALSE
    /\ UNCHANGED <<ft_pc, mqtt_offline_queue, offline_dir, got, given, calls, restVars>>

\* process_offline_messages lines 352-383, one turn of its loop, called at
\* the end of on_connect and by the background thread (process_offline_queue)
process_offline_messages ==
    /\ TimerAlive
    /\ is_connected
    /\ mqtt_offline_queue # << >>
    /\ LET m == Head(mqtt_offline_queue)
       IN  IF now - m.timestamp > 300 /\ m.qos = 0
           THEN /\ mqtt_offline_queue' = Tail(mqtt_offline_queue)
                /\ UNCHANGED got
           ELSE \E rc \in PublishResults :
                  IF rc = "success"
                  THEN /\ got' = got \cup {m}
                       /\ mqtt_offline_queue' = Tail(mqtt_offline_queue)
                  ELSE /\ mqtt_offline_queue' = Append(Tail(mqtt_offline_queue), m)
                       /\ UNCHANGED got
    /\ UNCHANGED <<ft_pc, is_connected, offline_dir, given, calls, restVars>>

\* process_stored_messages lines 434-466 for one file, called by the
\* background thread
process_stored_messages ==
    /\ TimerAlive
    /\ is_connected
    /\ \E f \in offline_dir, rc \in PublishResults :
         IF rc = "success"
         THEN got' = got \cup {f} /\ offline_dir' = offline_dir \ {f}
         ELSE UNCHANGED <<got, offline_dir>>
    /\ UNCHANGED <<ft_pc, is_connected, mqtt_offline_queue, given, calls, restVars>>

FinishTimerNext ==
    \/ toggle_callback
    \/ main_send_telemetry
    \/ main_connection_check
    \/ ft_on_connect
    \/ ft_on_disconnect
    \/ process_offline_messages
    \/ process_stored_messages

FinishTimerSpec == Init /\ [][FinishTimerNext]_vars

\* ------------------------------------------ finish timer: reconnection
Min(a, b) == IF a <= b THEN a ELSE b

\* what client.connect does: return, or raise (the broker is unreachable)
ConnectResults == {"connected", "raised"}

\* connect_with_retry lines 242-294 as a step on the pending timer and on
\* connect_with_retry.retry_count (getattr gives 0 while it is not set):
\* the pending timer is cancelled, then client.connect either returns or
\* raises, and a failed call starts the next timer
connect_with_retry(first_attempt, result) ==
    IF result = "connected"
    THEN /\ mqtt_reconnect_timer' = 0
         /\ retry_count' = retry_count
    ELSE IF first_attempt
    THEN /\ mqtt_reconnect_timer' = MQTT_RETRY_DELAY
         /\ retry_count' = retry_count
    ELSE LET count == retry_count + 1
             delay == Min(MQTT_RETRY_DELAY * 2 ^ (count - 1), MQTT_MAX_DELAY)
         IN  IF count >= MQTT_MAX_RETRIES
             THEN /\ retry_count' = 0
                  /\ mqtt_reconnect_timer' = MQTT_MAX_DELAY
             ELSE /\ retry_count' = count
                  /\ mqtt_reconnect_timer' = delay

\* initMQTT lines 100-124, called by main before its loop: the first call
\* of connect_with_retry
initMQTT ==
    /\ ft_pc = "initMQTT"
    /\ \E result \in ConnectResults : connect_with_retry(TRUE, result)
    /\ failed' = 0
    /\ ft_pc' = "send_telemetry"
    /\ UNCHANGED <<is_connected, mqtt_offline_queue, offline_dir, calls, given, got,
                   coordVars, clientVars>>

\* the pending timer runs out (lines 268 and 291): its thread calls
\* connect_with_retry(False)
retry_timer ==
    /\ TimerAlive
    /\ mqtt_reconnect_timer > 0
    /\ \E result \in ConnectResults :
         /\ connect_with_retry(FALSE, result)
         /\ IF result = "connected"
            THEN failed' = 0
            ELSE failed < MaxFailures /\ failed' = failed + 1
    /\ UNCHANGED <<ft_pc, is_connected, mqtt_offline_queue, offline_dir, calls, given, got,
                   coordVars, clientVars>>

\* client.connect has returned and no retry is pending: the network loop
\* (loop_start, line 259) brings the connection up and reconnects by itself
LoopStarted == ft_pc # "initMQTT" /\ mqtt_reconnect_timer = 0

RetryNext ==
    \/ initMQTT
    \/ retry_timer
    \/ main_send_telemetry
    \/ main_connection_check
    \/ LoopStarted /\ ft_on_connect
    \/ ft_on_disconnect
    \/ process_offline_messages
    \/ process_stored_messages

RetrySpec == InitAt("initMQTT") /\ [][RetryNext]_vars

\* ------------------------------------------------------------- claims
RaceStates == {"STOPPED", "STAGING", "RACING"}

\* C1: when stopRace calls send_finish, lane_times holds a finish time for
\* every lane 1..lane_count.
C1_AllLanesReported ==
    pc["cb"] = "stop_send" => \A l \in 1..lane_count : l \in DOMAIN lane_times

\* C2: every value laneFinish computes for lane_times is the time elapsed
\* since the start of the race the finish belongs to: a start time exists,
\* and it is the one of the current race.
C2_ElapsedSinceRaceStart ==
    [][pc["cb"] = "lf_time" /\ pc'["cb"] = "lf_write"
         => start_time > 0 /\ start_fresh /\ race_time' = now - start_time]_vars

\* C3: once on_message has handled the finish that completes a race, the
\* race record is cleared, whatever send_finish did.
C3_ClearedOnCompletion ==
    [][pc["cb"] \in {"stop_send", "stop_reset", "stop_times", "stop_start"}
         /\ pc'["cb"] = "idle"
         => lane_times' = EmptyMap /\ lanesFinished' = 0 /\ start_time' = 0]_vars

\* C4: race_state is one of STOPPED, STAGING, RACING and changes only in a
\* poll (setLEDFromRaceStat on the main thread) or in stopRace, run by the
\* lane-finish toggle message that completes the race.
C4_RaceStateWriters ==
    /\ race_state \in RaceStates
    /\ [][/\ race_state' \in RaceStates
           /\ race_state' # race_state =>
                \/ /\ pc["main"] \in {"led_staging", "led_racing", "led_stop"}
                   /\ pc'["main"] # pc["main"]
                \/ /\ pc["cb"] = "stop_state" /\ pc'["cb"] = "stop_send"
                   /\ msg.topic = "state" /\ msg.lane > 0 /\ msg.toggle # "true"
                   /\ race_state' = "STOPPED"]_vars

C4_Witness ==
    /\ pc["cb"] = "stop_send" /\ race_state = "STOPPED"
    /\ pc["main"] = "poll" /\ start_time > 0

\* the main thread takes no part in the step
MainUnmoved == pc'["main"] = pc["main"] /\ racestats' = racestats

\* C5 as stated: every write to race_state, start_time, lane_times,
\* lanesFinished and timer_heartbeats is made by the MQTT callback thread.
C5_OnlyCallbackWrites ==
    [][record' # record \/ timer_heartbeats' # timer_heartbeats => MainUnmoved]_vars

\* C5 amended: timer_heartbeats is written by the callback thread only, and
\* so are the finishes (a lane_times entry, an increment of lanesFinished);
\* race_state, start_time and the resets of lane_times and lanesFinished are
\* written by the main polling thread as well.
C5_CallbackOnlyWrites ==
    [][/\ timer_heartbeats' # timer_heartbeats => MainUnmoved
       /\ last_heartbeat' # last_heartbeat => MainUnmoved
       /\ lanesFinished' > lanesFinished => MainUnmoved
       /\ lane_times' # lane_times /\ lane_times' # EmptyMap => MainUnmoved]_vars

C5_Witness ==
    /\ timer_heartbeats # EmptyMap /\ lanesFinished > 0
    /\ race_state = "RACING" /\ pc["main"] = "sr_check" /\ pc["cb"] = "idle"

\* C6: after get_race_status has returned False, the main loop is still running.
C6_PollSurvivesApiError ==
    racestats.ret = "False" => pc["main"] # "exited"

\* the lane a 4-character DIP string encodes: 1 + the value of the last two
\* switches when the first two read "10", else none
EncodedLane(d) ==
    IF d # NoDIP /\ d[1] = "1" /\ d[2] = "0"
    THEN 1 + 2 * DigitValue(d[3]) + DigitValue(d[4]) ELSE 0

\* getDIPName over every DIP setting: the table of C7, and the lane the
\* timer derives from its pins
LaneOfEveryDIP ==
    /\ \A d \in AllDIPs \cup {NoDIP} : getDIPName(d) = EncodedLane(d)
    /\ \A p \in PinLevels : getDIPName(readDIP(p)) = int(get_Lane(readDIP(p)))

\* C7: getDIPName maps "1000", "1001", "1010", "1011" to lanes 1..4 and
\* everything else (also a missing dip) to 0, which is the lane the timer
\* itself derives, int(get_Lane()); the lane on_message works with is this one.
C7_LaneOfDIP ==
    /\ LaneOfEveryDIP
    /\ msg.topic # "none" =>
          msg.lane = IF msg.dip = NoDIP THEN 0 ELSE int(get_Lane(msg.dip))

C7_Witness == pc["cb"] = "lf_write" /\ msg.lane = 4 /\ msg.dip = <<"1", "0", "1", "1">>

\* what a step of setLEDFromRaceStat makes of race_state
PolledState ==
    CASE pc["main"] = "led_staging" ->
           IF racestats.active /\ race_state = "STOPPED" THEN "STAGING" ELSE race_state
      [] pc["main"] = "led_racing" ->
           IF racestats.running THEN "RACING" ELSE race_state
      [] pc["main"] = "led_stop" ->
           IF ~racestats.active THEN "STOPPED" ELSE race_state
      [] OTHER -> race_state

\* C8: a telemetry message is handled without touching race_state,
\* start_time, lane_times or lanesFinished; no step that changes the race
\* record changes the heartbeat bookkeeping; and the race transitions and
\* the finish decisions are decided by the polled status, the message and
\* the race record alone, whatever timer_heartbeats holds.
C8_TelemetryFrame ==
    [][/\ pc["cb"] = "idle" /\ pc'["cb"] \in {"idle", "dead"} /\ MainUnmoved
          => UNCHANGED record
       /\ record' # record => UNCHANGED <<timer_heartbeats, last_heartbeat>>
       /\ pc'["main"] # pc["main"] => race_state' = PolledState
       /\ pc["cb"] = "idle" /\ pc'["cb"] = "lf_time"
          => race_state = "RACING" /\ msg'.lane > 0 /\ msg'.toggle # "true"
       /\ pc["cb"] = "lf_done" /\ pc'["cb"] # "lf_done"
          => (pc'["cb"] = "stop_state") = (lanesFinished = lane_count)]_vars

C8_Witness ==
    /\ timer_heartbeats # EmptyMap /\ race_state = "RACING"
    /\ lane_times # EmptyMap /\ start_time > 0 /\ pc["cb"] = "idle"

\* C9: every request of send_start, send_finish, send_timer_heartbeat,
\* get_race_status and send_device_status carries a non-empty authcode.
C9_RequestsCarryCookie ==
    [][\A t \in Threads :
         api[t].pc = "send" /\ api'[t].pc # "send" => Authed(CookieSent)]_vars

\* C10: every poll cycle that does not end the process publishes on
\* derbynet/race/state, and what it publishes is race_state as it is once
\* setLEDFromRaceStat has run.
C10_PublishesRaceState ==
    /\ (pc["main"] = "poll") ~> (race_state_pub # "none" \/ pc["main"] = "exited")
    /\ [][race_state_pub' # race_state_pub /\ race_state_pub' # "none"
            => pc["main"] = "pub_state" /\ race_state_pub' = race_state']_vars

C10_Witness == race_state_pub = "RACING" /\ race_state = "RACING" /\ pc["main"] = "telemetry"

\* the callback thread takes no part in the step
CallbackUnmoved == pc'["cb"] = pc["cb"] /\ msg' = msg

\* C13: the callback thread enters startRace exactly for a GO message seen
\* while race_state is STAGING, and only such a message sets start_time,
\* publishes race_start or calls send_start on that thread; in STAGING a
\* GO message is always taken up.
C13_GoOnlyInStaging ==
    /\ [][/\ pc["cb"] = "idle" /\ pc'["cb"] = "sr_check"
             => race_state = "STAGING" /\ msg'.val = "GO"
          /\ pc["cb"] = "idle" /\ pc'["cb"] \notin {"idle", "dead"} /\ race_state # "STAGING"
             => msg'.val # "GO"
          /\ ~CallbackUnmoved /\ start_time' # start_time /\ start_time' > 0
             => msg.val = "GO"]_vars
    /\ [](pc["cb"] \in {"sr_check", "sr_times", "sr_start", "send_start"} => msg.val = "GO")
    /\ [](Running /\ pc["cb"] = "idle" /\ race_state = "STAGING"
           => ENABLED (ReceiveState /\ pc'["cb"] = "sr_check"))

C13_Witness ==
    /\ pc["cb"] = "send_start" /\ msg.val = "GO" /\ start_time > 0 /\ start_fresh

\* C14: a state message is taken as a lane finish only when race_state is
\* RACING and its DIP gives a lane above 0; the callback thread writes a
\* lane_times entry or counts a finish only for such a message, and a
\* message seen in STOPPED or STAGING is not taken as a finish.
C14_FinishOnlyWhenRacing ==
    /\ [][/\ pc["cb"] \in {"idle", "send_start"} /\ pc'["cb"] = "lf_time"
             => race_state = "RACING" /\ msg'.lane > 0 /\ msg'.topic = "state"
          /\ ~CallbackUnmoved /\ (lanesFinished' > lanesFinished \/
                                    (lane_times' # lane_times /\ lane_times' # EmptyMap))
             => msg.lane > 0 /\ pc["cb"] \in {"lf_write", "lf_inc"}]_vars
    /\ [](pc["cb"] \in {"lf_time", "lf_write", "lf_inc", "lf_done"} => msg.lane > 0)
    /\ [](DOMAIN lane_times \subseteq 1..4)

C14_Witness ==
    /\ pc["cb"] = "lf_done" /\ msg.lane = 2 /\ 2 \in DOMAIN lane_times /\ lanesFinished = 1

\* C15: a startRace call that finds start_time non-zero returns at once and
\* changes none of start_time, lane_times, lanesFinished (and publishes no
\* race_start event, which only the step setting start_time does).
C15_StartRaceIdempotent ==
    [][\A t \in Threads :
         pc[t] = "sr_check" /\ pc'[t] # "sr_check" /\ start_time # 0
           => /\ pc'[t] = AfterStartRace(t)
              /\ UNCHANGED <<start_time, lane_times, lanesFinished>>]_vars

C15_Witness ==
    /\ pc["main"] = "led_stop" /\ racestats.running /\ start_time > 0
    /\ lanesFinished = 2 /\ lane_times # EmptyMap /\ start_fresh

\* C16: when a poll has put a race in RACING and startRace has returned,
\* either start_time was set since race_state last became STOPPED (the race
\* was started before and may hold finishes) or the record is reset:
\* lane_times empty and lanesFinished 0.
C16_RaceStartsReset ==
    [][/\ pc["main"] \in {"sr_check", "sr_start"} /\ pc'["main"] = "led_stop"
       /\ race_state' = "RACING"
       => start_fresh' \/ (lane_times' = EmptyMap /\ lanesFinished' = 0)]_vars

\* C17: a race that startRace started more than LANE_FINISH_TIMEOUT seconds
\* ago is completed (race_state returns to STOPPED), unless the coordinator
\* process or its MQTT thread has ended.
Alive == Running /\ pc["cb"] # "dead"
Overdue ==
    /\ race_state = "RACING" /\ start_fresh
    /\ start_time > 0 /\ now - start_time > LANE_FINISH_TIMEOUT

C17_AutoComplete == (Overdue /\ Alive) ~> (race_state = "STOPPED" \/ ~Alive)

\* C18: a timer not heard of for HEARTBEAT_TIMEOUT seconds is removed from
\* timer_heartbeats, also when no timer sends telemetry any more, unless the
\* coordinator process or its MQTT thread has ended.
Stale == {l \in DOMAIN timer_heartbeats : now - timer_heartbeats[l].time >= HEARTBEAT_TIMEOUT}

C18_StaleTimersRemoved == (Stale # {} /\ Alive) ~> (Stale = {} \/ ~Alive)

\* C11: a send_timer_heartbeat call entered with last_heartbeat_time = 0 on
\* a logged-in client goes on to the POST, with a payload that lists every
\* lane of timer_heartbeats with its ready flag; a POST that succeeds makes
\* the call return True and record last_heartbeat_time, which is recorded
\* in no other step; the call returns False only after a failed login or a
\* failed request.
Heartbeat == api["cb"].fn = "send_timer_heartbeat"

C11_FirstHeartbeatSent ==
    [][/\ Heartbeat /\ api["cb"].pc = "enter" /\ api'["cb"].pc # "enter"
          /\ last_heartbeat_time = 0 /\ Authed(authcode)
          => /\ api'["cb"].pc = "send"
             /\ DOMAIN api'["cb"].payload.lanes = DOMAIN timer_heartbeats
             /\ \A l \in DOMAIN timer_heartbeats :
                  api'["cb"].payload.lanes[l] = timer_heartbeats[l].isReady
       /\ Heartbeat /\ api["cb"].pc = "send" /\ api'["cb"].response = "success"
          => /\ api'["cb"].pc = "done" /\ api'["cb"].ret = "True"
             /\ last_heartbeat_time' = api["cb"].current_time
             /\ posted' = api["cb"].payload
       /\ last_heartbeat_time' # last_heartbeat_time /\ last_heartbeat_time' # 0
          => Heartbeat /\ api["cb"].pc = "send" /\ api'["cb"].response = "success"
       /\ Heartbeat /\ api["cb"].pc # "done" /\ api'["cb"].pc = "done" /\ api'["cb"].ret = "False"
          => /\ last_heartbeat_time' = last_heartbeat_time
             /\ \/ api["cb"].pc = "send" /\ api'["cb"].response = "error"
                \/ api["cb"].pc = "login_ret" /\ ~Authed(api["cb"].ret)]_vars
C11_Witness ==
    /\ Heartbeat /\ api["cb"].pc = "done" /\ api["cb"].ret = "True"
    /\ api["cb"].response = "success"
    /\ last_heartbeat_time = api["cb"].current_time
    /\ timer_heartbeats # EmptyMap
    /\ posted = HeartbeatPayload(timer_heartbeats)

\* C19: a send_timer_heartbeat call returns without a POST only when the
\* lanes online and their ready flags are those of the last HEARTBEAT the
\* server accepted, and POSTs such an unchanged state, after an earlier
\* heartbeat, only in the 5 seconds before the HEARTBEAT_INTERVAL deadline
\* or after it.
HeartbeatSkipped ==
    /\ Heartbeat /\ api["cb"].pc = "done"
    /\ api["cb"].ret = "True" /\ api["cb"].response = "none"

C19_ChangedStateIsSent ==
    /\ HeartbeatSkipped => HeartbeatPayload(timer_heartbeats) = posted
    /\ /\ Heartbeat /\ api["cb"].pc = "send"
       /\ last_heartbeat_time > 0 /\ api["cb"].payload = posted
       => api["cb"].current_time - last_heartbeat_time >= HEARTBEAT_INTERVAL - 5

\* C12: MQTTClient.publish returns True only for a message the broker took
\* over a live connection; otherwise (disconnected, or the publish failed)
\* it returns False with the message in the queue and in a file of
\* queue_dir; a message that got False stays in the queue and on disk until
\* the broker has it, and the broker gets it in the end.
Waiting(n) == \E i \in 1..Len(message_queue) : message_queue[i].n = n
Stored(n) == \E f \in queue_dir : f.n = n

C20_NoMessageLost == ft_pc = "exited" => \A m \in given : m \in got

\* a retry of connect_with_retry has failed in this step
RetryFailed == failed' = failed + 1

\* C21: while the broker stays unreachable the reconnection goes on and
\* backs off: the n-th failed retry in a row starts a timer of
\* min(MQTT_RETRY_DELAY * 2^(n-1), MQTT_MAX_DELAY) seconds, which is never
\* shorter than the timer before it, and from the MQTT_MAX_RETRIES-th
\* failure on the timer is MQTT_MAX_DELAY.
C21_BackoffSchedule ==
    [][RetryFailed =>
         /\ mqtt_reconnect_timer' =
               Min(MQTT_RETRY_DELAY * 2 ^ (failed' - 1), MQTT_MAX_DELAY)
         /\ mqtt_reconnect_timer' >= mqtt_reconnect_timer
         /\ failed' >= MQTT_MAX_RETRIES => mqtt_reconnect_timer' = MQTT_MAX_DELAY]_vars

\* stopRace on the callback thread has set STOPPED and has not returned
InStopRace == pc["cb"] \in {"stop_send", "stop_reset", "stop_times", "stop_start"}

\* C22: under every interleaving of the two threads, on_message calls
\* laneFinish, and laneFinish computes its time, only with start_time above
\* 0; and while stopRace is completing a race on the callback thread, the
\* poll in progress on the main thread neither puts the race back to RACING
\* nor sets start_time.
C22_FinishHasStartTime ==
    [][/\ pc["cb"] # "lf_time" /\ pc'["cb"] = "lf_time" => start_time > 0
       /\ pc["cb"] = "lf_time" /\ pc'["cb"] = "lf_write" => start_time > 0
       /\ InStopRace /\ CallbackUnmoved
            => /\ race_state' = "RACING" => race_state = "RACING"
               /\ start_time' = start_time]_vars

====
